---- MODULE Spec2Model ----
(***************************************************************************)
(* The Mau Mau rules engine of src/src/utils/gameUtils.ts driven by the    *)
(* handlers of src/src/pages/Index.tsx.  The single React state value      *)
(* `gameState` is one record-valued variable; every handler is one action  *)
(* that replaces it (setGameState) or leaves it alone (early return).      *)
(* Array indices are 0-based as in the source; a TLA+ sequence s is read   *)
(* at s[i + 1].                                                            *)
(***************************************************************************)
EXTENDS Integers, Sequences, FiniteSets, TLC

VARIABLES gameState, call, turns, fnArgs, fnResult, timer

vars == <<gameState, call, turns, fnArgs, fnResult, timer>>

(***************************************************************************)
(* Bounds of the model.  The program builds NUM_DECKS = 2 sub-decks of     *)
(* 4 suits x 13 ranks and deals INITIAL_CARDS = 7 cards; the model keeps   *)
(* the construction and scales the numbers.                                *)
(***************************************************************************)
\* largest number of players startGame is called with (the setup form allows 2..10)
MaxPlayers == 3
\* cards dealt to each player (gameUtils.ts:4 sets 7)
INITIAL_CARDS == 2
\* sub-decks built by createDeck (gameUtils.ts:13 loops d < 2)
NUM_DECKS == 1
\* Math.random() yields r / RandDenom for r in 0 .. RandDenom - 1
RandDenom == 2
\* cap on the cards in play beyond the size of the built deck: a handler call
\* that would exceed it is not taken
MaxExtraCards == 2
\* cap on the play, draw and say calls that change the state within one round
MaxTurns == 5
\* the same cap in SpecAnyCard
MaxAnyCardTurns == 3
\* the same cap in SpecLongRound
MaxLongRoundTurns == 12

\* the suits and ranks createDeck iterates over, cut down from 4 and 13
suits == <<"hearts", "spades">>
ranks == <<"5", "9", "Q", "A">>

\* settings.initialScore values startGame is called with
InitialScores == {10}

PlayerIds ==
  <<"player-0", "player-1", "player-2", "player-3", "player-4",
    "player-5", "player-6", "player-7", "player-8", "player-9">>

NoWinner == "null"

(***************************************************************************)
(* Sequence helpers standing for the JavaScript array methods used.        *)
(***************************************************************************)
Last(s) == s[Len(s)]

Pop(s) == SubSeq(s, 1, Len(s) - 1)

RECURSIVE FilterOutId(_, _)
FilterOutId(cards, id) ==
  IF cards = <<>> THEN <<>>
  ELSE IF Head(cards).id = id THEN FilterOutId(Tail(cards), id)
       ELSE <<Head(cards)>> \o FilterOutId(Tail(cards), id)

(***************************************************************************)
(* createDeck                                                              *)
(***************************************************************************)
MakeCard(suit, rank, d) ==
  [id |-> <<suit, rank, d>>, suit |-> suit, rank |-> rank,
   isRed |-> (suit = "hearts" \/ suit = "diamonds")]

RedJoker(d) ==
  [id |-> <<"joker", "red", d>>, suit |-> "joker", rank |-> "joker", isRed |-> TRUE]

BlackJoker(d) ==
  [id |-> <<"joker", "black", d>>, suit |-> "joker", rank |-> "joker", isRed |-> FALSE]

SubDeck(d, includeJokers) ==
  [k \in 1 .. Len(suits) * Len(ranks) |->
     MakeCard(suits[((k - 1) \div Len(ranks)) + 1],
              ranks[((k - 1) % Len(ranks)) + 1], d)]
  \o (IF includeJokers THEN <<RedJoker(d), BlackJoker(d)>> ELSE <<>>)

RECURSIVE DecksFrom(_, _)
DecksFrom(d, includeJokers) ==
  IF d >= NUM_DECKS THEN <<>>
  ELSE SubDeck(d, includeJokers) \o DecksFrom(d + 1, includeJokers)

createDeck(includeJokers) == DecksFrom(0, includeJokers)

(***************************************************************************)
(* shuffleDeck: Fisher-Yates; rand[k] / RandDenom is the value of the k-th *)
(* Math.random() call.                                                     *)
(***************************************************************************)
RECURSIVE ShuffleLoop(_, _, _, _)
ShuffleLoop(newDeck, i, rand, k) ==
  IF i <= 0 THEN newDeck
  ELSE LET j == (rand[k] * (i + 1)) \div RandDenom
       IN ShuffleLoop([newDeck EXCEPT ![i + 1] = newDeck[j + 1],
                                      ![j + 1] = newDeck[i + 1]],
                      i - 1, rand, k + 1)

shuffleDeck_DropsSwapped(deck, rand) ==
  LET newDeck == ShuffleLoop(deck, Len(deck) - 1, rand, 1)
  IN IF Len(newDeck) > 1 THEN [newDeck EXCEPT ![1] = newDeck[2]] ELSE newDeck

shuffleDeck(deck, rand) == ShuffleLoop(deck, Len(deck) - 1, rand, 1)

\* the array the caller handed in, as it is after the call: the swaps are
\* made in the copy newDeck
shuffleDeck_Argument(deck, rand) == deck

\* the random sources the actions draw from: one value per shuffle
Rand(r) == [k \in 1 .. (Len(createDeck(TRUE)) + MaxExtraCards) |-> r]

RandVals == 0 .. (RandDenom - 1)

(***************************************************************************)
(* dealCards                                                               *)
(***************************************************************************)
RECURSIVE DealLoop(_, _, _)
DealLoop(ps, dk, t) ==
  IF t >= INITIAL_CARDS * Len(ps) THEN [updatedPlayers |-> ps, updatedDeck |-> dk]
  ELSE LET j == t % Len(ps)
       IN IF Len(dk) > 0
          THEN DealLoop([ps EXCEPT ![j + 1].cards = Append(@, Last(dk))], Pop(dk), t + 1)
          ELSE DealLoop(ps, dk, t + 1)

\* deals each player a whole hand before the next player
dealCards_HandByHand(ps, dk) ==
  LET n == Len(ps)
      dealt == IF Len(dk) < INITIAL_CARDS * n THEN Len(dk) ELSE INITIAL_CARDS * n
  IN [updatedPlayers |->
        [j \in 1 .. n |->
           [ps[j] EXCEPT
              !.cards = @ \o [i \in 1 .. (IF dealt >= j * INITIAL_CARDS THEN INITIAL_CARDS
                                            ELSE IF dealt <= (j - 1) * INITIAL_CARDS THEN 0
                                            ELSE dealt - (j - 1) * INITIAL_CARDS) |->
                                dk[Len(dk) - ((j - 1) * INITIAL_CARDS + i - 1)]]]],
      updatedDeck |-> SubSeq(dk, 1, Len(dk) - dealt)]

dealCards(ps, dk) == DealLoop(ps, dk, 0)

(***************************************************************************)
(* isValidMove, getNextPlayerIndex                                         *)
(***************************************************************************)
\* mutant: a joker on top of the discard pile is not special
isValidMove_NoTopJoker(cardToPlay, topCard, enableBluffing) ==
  IF cardToPlay.rank = "joker" THEN TRUE
  ELSE IF enableBluffing THEN TRUE
  ELSE cardToPlay.suit = topCard.suit \/ cardToPlay.rank = topCard.rank

isValidMove(cardToPlay, topCard, enableBluffing) ==
  IF cardToPlay.rank = "joker" THEN TRUE
  ELSE IF topCard.rank = "joker" THEN TRUE
  ELSE IF enableBluffing THEN TRUE
  ELSE cardToPlay.suit = topCard.suit \/ cardToPlay.rank = topCard.rank

getNextPlayerIndex(currentPlayerIndex, direction, playersCount) ==
  IF direction = "clockwise"
  THEN (currentPlayerIndex + 1) % playersCount
  ELSE (currentPlayerIndex - 1 + playersCount) % playersCount

(***************************************************************************)
(* getCardPoints, calculateScores                                          *)
(***************************************************************************)
\* parseInt(card.rank) || 0
ParseIntOrZero(rank) ==
  CASE rank = "2" -> 2 [] rank = "3" -> 3 [] rank = "4" -> 4 [] rank = "5" -> 5
    [] rank = "6" -> 6 [] rank = "7" -> 7 [] rank = "8" -> 8 [] rank = "9" -> 9
    [] rank = "10" -> 10 [] OTHER -> 0

\* mutant: the ace counts 11
getCardPoints_AceEleven(card) ==
  IF card.rank = "joker" THEN 20
  ELSE IF card.rank = "A" THEN 11
  ELSE IF card.rank \in {"K", "Q", "J"} THEN 10
  ELSE ParseIntOrZero(card.rank)

getCardPoints(card) ==
  IF card.rank = "joker" THEN 20
  ELSE IF card.rank = "A" THEN 15
  ELSE IF card.rank \in {"K", "Q", "J"} THEN 10
  ELSE ParseIntOrZero(card.rank)

RECURSIVE SumPoints(_)
SumPoints(cards) ==
  IF cards = <<>> THEN 0 ELSE getCardPoints(Head(cards)) + SumPoints(Tail(cards))

\* mutant: a score of exactly 0 does not eliminate
calculateScores_ZeroSurvives(ps, winnerId) ==
  [i \in 1 .. Len(ps) |->
     IF ps[i].id = winnerId THEN ps[i]
     ELSE LET pointsToLose == SumPoints(ps[i].cards)
          IN [ps[i] EXCEPT !.score = ps[i].score - pointsToLose,
                           !.isEliminated = (ps[i].score - pointsToLose < 0)]]

\* mutant: the cards left in hand count for their holder
calculateScores_Rewards(ps, winnerId) ==
  [i \in 1 .. Len(ps) |->
     IF ps[i].id = winnerId THEN ps[i]
     ELSE LET pointsToLose == SumPoints(ps[i].cards)
          IN [ps[i] EXCEPT !.score = ps[i].score + pointsToLose,
                           !.isEliminated = (ps[i].score + pointsToLose <= 0)]]

calculateScores(ps, winnerId) ==
  [i \in 1 .. Len(ps) |->
     IF ps[i].id = winnerId THEN ps[i]
     ELSE LET pointsToLose == SumPoints(ps[i].cards)
          IN [ps[i] EXCEPT !.score = ps[i].score - pointsToLose,
                           !.isEliminated = (ps[i].score - pointsToLose <= 0)]]

(***************************************************************************)
(* drawCardsFromDeck: at most one reshuffle can happen in one call, since  *)
(* a reshuffle leaves a discard pile of one card.                          *)
(***************************************************************************)
RECURSIVE DrawLoop(_, _, _, _, _, _, _)
DrawLoop(updatedDeck, updatedDiscardPile, drawnCards, reshuffled, i, count, rand) ==
  LET result == [drawnCards |-> drawnCards, updatedDeck |-> updatedDeck,
                 updatedDiscardPile |-> updatedDiscardPile, reshuffled |-> reshuffled]
  IN IF i >= count THEN result
     ELSE IF Len(updatedDeck) = 0 /\ Len(updatedDiscardPile) <= 1 THEN result
     ELSE LET doShuffle == Len(updatedDeck) = 0
              dk == IF doShuffle THEN shuffleDeck(Pop(updatedDiscardPile), rand)
                    ELSE updatedDeck
              dp == IF doShuffle THEN <<Last(updatedDiscardPile)>>
                    ELSE updatedDiscardPile
          IN IF Len(dk) > 0
             THEN DrawLoop(Pop(dk), dp, Append(drawnCards, Last(dk)),
                           reshuffled \/ doShuffle, i + 1, count, rand)
             ELSE DrawLoop(dk, dp, drawnCards, reshuffled \/ doShuffle, i + 1, count, rand)

drawCardsFromDeck_StaleDiscardPile(deck, discardPile, count, rand) ==
  [DrawLoop(deck, discardPile, <<>>, FALSE, 0, count, rand)
     EXCEPT !.updatedDiscardPile = discardPile]

drawCardsFromDeck_NeverFlagged(deck, discardPile, count, rand) ==
  [DrawLoop(deck, discardPile, <<>>, FALSE, 0, count, rand)
     EXCEPT !.reshuffled = FALSE]

drawCardsFromDeck_StopsAtEmptyDeck(deck, discardPile, count, rand) ==
  IF count <= Len(deck)
  THEN DrawLoop(deck, discardPile, <<>>, FALSE, 0, count, rand)
  ELSE DrawLoop(deck, discardPile, <<>>, FALSE, 0, Len(deck), rand)

drawCardsFromDeck_KeepsBottomCard(deck, discardPile, count, rand) ==
  LET d == DrawLoop(deck, discardPile, <<>>, FALSE, 0, count, rand)
  IN IF d.reshuffled THEN [d EXCEPT !.updatedDiscardPile = <<discardPile[1]>>] ELSE d

drawCardsFromDeck(deck, discardPile, count, rand) ==
  DrawLoop(deck, discardPile, <<>>, FALSE, 0, count, rand)

\* the arrays the caller handed in, as they are after the call: the loop
\* pops and reassigns the copies made on entry, never the arguments
drawCardsFromDeck_Arguments(deck, discardPile, count, rand) ==
  [deck |-> deck, discardPile |-> discardPile]

(***************************************************************************)
(* checkMauMauStatus (the message is part of lastAction below)             *)
(***************************************************************************)
\* mutant: the declaration is not looked at
checkMauMauStatus_IgnoresDeclaration(player, hasSaidMauMau, enableMauMauRule) ==
  IF ~enableMauMauRule THEN [shouldPenalize |-> FALSE, message |-> ""]
  ELSE IF Len(player.cards) = 1
       THEN [shouldPenalize |-> TRUE, message |-> "forgot Mau Mau"]
       ELSE [shouldPenalize |-> FALSE, message |-> ""]

checkMauMauStatus(player, hasSaidMauMau, enableMauMauRule) ==
  IF ~enableMauMauRule THEN [shouldPenalize |-> FALSE, message |-> ""]
  ELSE IF Len(player.cards) = 1 /\ ~hasSaidMauMau
       THEN [shouldPenalize |-> TRUE, message |-> "forgot Mau Mau"]
       ELSE [shouldPenalize |-> FALSE, message |-> ""]

(***************************************************************************)
(* handleSpecialCard                                                       *)
(***************************************************************************)
\* mutant: the joker makes the next player draw 4 cards
JokerEffect_DrawsFour(newState, nextPlayerIndex, rand) ==
  LET targetPlayerIndex == nextPlayerIndex
      d == drawCardsFromDeck(newState.deck, newState.discardPile, 4, rand)
  IN IF Len(d.drawnCards) > 0
     THEN [newState EXCEPT
             !.players[targetPlayerIndex + 1].cards = @ \o d.drawnCards,
             !.deck = d.updatedDeck,
             !.discardPile = d.updatedDiscardPile,
             !.currentPlayerIndex =
                getNextPlayerIndex(targetPlayerIndex, newState.direction,
                                   Len(newState.players)),
             !.lastAction = IF d.reshuffled THEN "drew 5, lost turn, reshuffled"
                            ELSE "drew 5, lost turn"]
     ELSE [newState EXCEPT !.currentPlayerIndex = nextPlayerIndex,
                           !.lastAction = "lost turn"]

JokerEffect(newState, nextPlayerIndex, rand) ==
  LET targetPlayerIndex == nextPlayerIndex
      d == drawCardsFromDeck(newState.deck, newState.discardPile, 5, rand)
  IN IF Len(d.drawnCards) > 0
     THEN [newState EXCEPT
             !.players[targetPlayerIndex + 1].cards = @ \o d.drawnCards,
             !.deck = d.updatedDeck,
             !.discardPile = d.updatedDiscardPile,
             !.currentPlayerIndex =
                getNextPlayerIndex(targetPlayerIndex, newState.direction,
                                   Len(newState.players)),
             !.lastAction = IF d.reshuffled THEN "drew 5, lost turn, reshuffled"
                            ELSE "drew 5, lost turn"]
     ELSE [newState EXCEPT !.currentPlayerIndex = nextPlayerIndex,
                           !.lastAction = "lost turn"]

\* mutant: the Ace passes the turn to the next seat like a plain card
AceEffect_NoSkip(newState, nextPlayerIndex) ==
  [newState EXCEPT !.currentPlayerIndex = nextPlayerIndex,
                   !.lastAction = "skipped"]

AceEffect(newState, nextPlayerIndex) ==
  [newState EXCEPT
     !.currentPlayerIndex =
        getNextPlayerIndex(nextPlayerIndex, newState.direction, Len(newState.players)),
     !.lastAction = "skipped"]

\* mutant: the next seat is computed before the direction is flipped
QueenEffect_SeatBeforeFlip(newState) ==
  [newState EXCEPT
     !.direction = IF newState.direction = "clockwise" THEN "counterclockwise"
                   ELSE "clockwise",
     !.currentPlayerIndex =
        getNextPlayerIndex(newState.currentPlayerIndex, newState.direction,
                           Len(newState.players)),
     !.lastAction = "direction reversed"]

QueenEffect(newState) ==
  LET newDirection == IF newState.direction = "clockwise" THEN "counterclockwise"
                      ELSE "clockwise"
  IN [newState EXCEPT
        !.direction = newDirection,
        !.currentPlayerIndex =
           getNextPlayerIndex(newState.currentPlayerIndex, newDirection,
                              Len(newState.players)),
        !.lastAction = "direction reversed"]

\* mutant: the card goes to the next player, not to the previous one
NineEffect_NextDraws(newState, nextPlayerIndex, rand) ==
  LET target == nextPlayerIndex
  IN IF Len(newState.deck) > 0
     THEN [newState EXCEPT
             !.players[target + 1].cards = Append(@, Last(newState.deck)),
             !.deck = Pop(newState.deck),
             !.currentPlayerIndex = nextPlayerIndex,
             !.lastAction = "previous drew"]
     ELSE IF Len(newState.discardPile) > 1
     THEN LET topCard == Last(newState.discardPile)
              shuffled == shuffleDeck(Pop(newState.discardPile), rand)
          IN [newState EXCEPT
                !.players[target + 1].cards = Append(@, Last(shuffled)),
                !.deck = Pop(shuffled),
                !.discardPile = <<topCard>>,
                !.currentPlayerIndex = nextPlayerIndex,
                !.lastAction = "reshuffled, previous drew"]
     ELSE [newState EXCEPT !.currentPlayerIndex = nextPlayerIndex]

NineEffect(newState, nextPlayerIndex, rand) ==
  LET n == Len(newState.players)
      prevPlayerIndex == IF newState.direction = "clockwise"
                         THEN (newState.currentPlayerIndex - 1 + n) % n
                         ELSE (newState.currentPlayerIndex + 1) % n
  IN IF Len(newState.deck) > 0
     THEN [newState EXCEPT
             !.players[prevPlayerIndex + 1].cards = Append(@, Last(newState.deck)),
             !.deck = Pop(newState.deck),
             !.currentPlayerIndex = nextPlayerIndex,
             !.lastAction = "previous drew"]
     ELSE IF Len(newState.discardPile) > 1
     THEN LET topCard == Last(newState.discardPile)
              shuffled == shuffleDeck(Pop(newState.discardPile), rand)
          IN [newState EXCEPT
                !.players[prevPlayerIndex + 1].cards = Append(@, Last(shuffled)),
                !.deck = Pop(shuffled),
                !.discardPile = <<topCard>>,
                !.currentPlayerIndex = nextPlayerIndex,
                !.lastAction = "reshuffled, previous drew"]
     ELSE [newState EXCEPT !.currentPlayerIndex = nextPlayerIndex]

\* mutant: a card without effect leaves the turn where it is
handleSpecialCard_PlainStays(playedCard, gs, rand) ==
  LET nextPlayerIndex ==
        getNextPlayerIndex(gs.currentPlayerIndex, gs.direction, Len(gs.players))
  IN CASE playedCard.rank = "joker" -> JokerEffect(gs, nextPlayerIndex, rand)
       [] playedCard.rank = "A" -> AceEffect(gs, nextPlayerIndex)
       [] playedCard.rank = "Q" -> QueenEffect(gs)
       [] playedCard.rank = "9" -> NineEffect(gs, nextPlayerIndex, rand)
       [] OTHER -> gs

\* the GameState object handleSpecialCard was given, as it is after the call:
\* newState is a copy of the object, not of its arrays, so the cards pushed
\* to a hand and the pops of the 9 reach the arrays given; the piles assigned
\* to newState after a reshuffle are new arrays
handleSpecialCard_Snapshot(playedCard, gs, new) ==
  LET hands == [gs EXCEPT !.players =
                  [i \in 1 .. Len(gs.players) |->
                     [gs.players[i] EXCEPT !.cards = new.players[i].cards]]]
  IN IF playedCard.rank = "9" /\ Len(gs.deck) > 0
     THEN [hands EXCEPT !.deck = Pop(gs.deck)]
     ELSE IF playedCard.rank = "9" /\ Len(gs.discardPile) > 1
     THEN [hands EXCEPT !.discardPile = Pop(gs.discardPile)]
     ELSE hands

handleSpecialCard(playedCard, gs, rand) ==
  LET nextPlayerIndex ==
        getNextPlayerIndex(gs.currentPlayerIndex, gs.direction, Len(gs.players))
  IN CASE playedCard.rank = "joker" -> JokerEffect(gs, nextPlayerIndex, rand)
       [] playedCard.rank = "A" -> AceEffect(gs, nextPlayerIndex)
       [] playedCard.rank = "Q" -> QueenEffect(gs)
       [] playedCard.rank = "9" -> NineEffect(gs, nextPlayerIndex, rand)
       [] OTHER -> [gs EXCEPT !.currentPlayerIndex = nextPlayerIndex]

(***************************************************************************)
(* The handlers of Index.tsx as functions of the state they read.          *)
(***************************************************************************)
getDefaultGameSettings ==
  [initialScore |-> 100, enableJokers |-> FALSE, enableBluffing |-> FALSE,
   enableMauMauRule |-> TRUE, autoCheckMauMau |-> TRUE]

\* the value useState is given, also what handleNewGame sets
InitialGameState ==
  [players |-> <<>>, currentPlayerIndex |-> 0, deck |-> <<>>, discardPile |-> <<>>,
   direction |-> "clockwise", gameStarted |-> FALSE, gameEnded |-> FALSE,
   winner |-> NoWinner, lastAction |-> "", settings |-> getDefaultGameSettings]

startGame_KeepsFirstCard(n, settings, rand) ==
  LET initialPlayers ==
        [i \in 1 .. n |->
           [id |-> PlayerIds[i], cards |-> <<>>, score |-> settings.initialScore,
            saidMauMau |-> FALSE, isEliminated |-> FALSE]]
      deck == shuffleDeck(createDeck(settings.enableJokers), rand)
      dealt == dealCards(initialPlayers, deck)
      firstCard == Last(dealt.updatedDeck)
  IN [players |-> dealt.updatedPlayers, currentPlayerIndex |-> 0,
      deck |-> dealt.updatedDeck, discardPile |-> <<firstCard>>,
      direction |-> "clockwise", gameStarted |-> TRUE, gameEnded |-> FALSE,
      winner |-> NoWinner, lastAction |-> "game started", settings |-> settings]

startGame(n, settings, rand) ==
  LET initialPlayers ==
        [i \in 1 .. n |->
           [id |-> PlayerIds[i], cards |-> <<>>, score |-> settings.initialScore,
            saidMauMau |-> FALSE, isEliminated |-> FALSE]]
      deck == shuffleDeck(createDeck(settings.enableJokers), rand)
      dealt == dealCards(initialPlayers, deck)
      firstCard == Last(dealt.updatedDeck)
  IN [players |-> dealt.updatedPlayers, currentPlayerIndex |-> 0,
      deck |-> Pop(dealt.updatedDeck), discardPile |-> <<firstCard>>,
      direction |-> "clockwise", gameStarted |-> TRUE, gameEnded |-> FALSE,
      winner |-> NoWinner, lastAction |-> "game started", settings |-> settings]

\* the end of handlePlayCard: special effect and reset of the declarations,
\* or the scores of the round
\* mutant: the round goes on after the last card of a hand
FinishPlay_PlaysOn(updatedState, cardToPlay, winner, rand) ==
  LET special == handleSpecialCard(cardToPlay, updatedState, rand)
  IN [special EXCEPT
        !.players = [i \in 1 .. Len(special.players) |->
                       [special.players[i] EXCEPT !.saidMauMau = FALSE]],
        !.winner = NoWinner,
        !.gameEnded = FALSE]

FinishPlay(updatedState, cardToPlay, winner, rand) ==
  IF winner = NoWinner
  THEN LET special == handleSpecialCard(cardToPlay, updatedState, rand)
       IN [special EXCEPT
             !.players = [i \in 1 .. Len(special.players) |->
                            [special.players[i] EXCEPT !.saidMauMau = FALSE]]]
  ELSE [updatedState EXCEPT
          !.players = calculateScores(updatedState.players, winner),
          !.lastAction = "won the round"]

\* the branch of handlePlayCard after the validity check
PlayValidCard(gs, cardToPlay, rand1, rand2) ==
  LET cpi == gs.currentPlayerIndex
      currentPlayer == gs.players[cpi + 1]
      mauMauCheck == checkMauMauStatus(currentPlayer, currentPlayer.saidMauMau,
                                       gs.settings.enableMauMauRule)
      penalize == mauMauCheck.shouldPenalize /\ ~gs.settings.autoCheckMauMau
      d == drawCardsFromDeck(gs.deck, gs.discardPile, 2, rand1)
      \* only drawnCards and updatedDeck of what it returns are used
      handAfterPenalty == IF penalize THEN currentPlayer.cards \o d.drawnCards
                          ELSE currentPlayer.cards
      updatedDeck == IF penalize THEN d.updatedDeck ELSE gs.deck
      hand == FilterOutId(handAfterPenalty, cardToPlay.id)
      updatedDiscardPile == Append(gs.discardPile, cardToPlay)
      winner == IF Len(hand) = 0 THEN currentPlayer.id ELSE NoWinner
      updatedState ==
        [gs EXCEPT !.players[cpi + 1].cards = hand,
                   !.deck = updatedDeck,
                   !.discardPile = updatedDiscardPile,
                   !.winner = winner,
                   !.gameEnded = (winner # NoWinner),
                   !.lastAction = IF penalize THEN mauMauCheck.message ELSE "played"]
  IN FinishPlay(updatedState, cardToPlay, winner, rand2)

\* mutant: the card is played without the validity check
handlePlayCard_NoValidityCheck(gs, cardToPlay, rand1, rand2) ==
  PlayValidCard(gs, cardToPlay, rand1, rand2)

handlePlayCard(gs, cardToPlay, rand1, rand2) ==
  IF ~isValidMove(cardToPlay, Last(gs.discardPile), gs.settings.enableBluffing)
  THEN gs
  ELSE PlayValidCard(gs, cardToPlay, rand1, rand2)

\* mutant: a draw that obtains no card passes the turn
handleDrawCard_PassesOnEmpty(gs, rand) ==
  LET d == drawCardsFromDeck(gs.deck, gs.discardPile, 1, rand)
      cpi == gs.currentPlayerIndex
      next == getNextPlayerIndex(cpi, gs.direction, Len(gs.players))
      canPlayDrawnCard == isValidMove(d.drawnCards[1], Last(gs.discardPile),
                                      gs.settings.enableBluffing)
      withCard == [gs.players EXCEPT ![cpi + 1].cards = @ \o d.drawnCards]
  IN IF Len(d.drawnCards) = 0 THEN [gs EXCEPT !.currentPlayerIndex = next]
     ELSE [gs EXCEPT
             !.players = IF canPlayDrawnCard THEN withCard
                         ELSE [i \in 1 .. Len(withCard) |->
                                 [withCard[i] EXCEPT !.saidMauMau = FALSE]],
             !.deck = d.updatedDeck,
             !.discardPile = d.updatedDiscardPile,
             !.currentPlayerIndex = IF canPlayDrawnCard THEN cpi ELSE next,
             !.lastAction = IF d.reshuffled THEN "drew a card, reshuffled"
                            ELSE "drew a card"]

\* mutant: the discard pile a reshuffle leaves is dropped, as in the penalty
\* draw of handlePlayCard
handleDrawCard_KeepsDiscardPile(gs, rand) ==
  LET d == drawCardsFromDeck(gs.deck, gs.discardPile, 1, rand)
      cpi == gs.currentPlayerIndex
      canPlayDrawnCard == isValidMove(d.drawnCards[1], Last(gs.discardPile),
                                      gs.settings.enableBluffing)
      withCard == [gs.players EXCEPT ![cpi + 1].cards = @ \o d.drawnCards]
  IN IF Len(d.drawnCards) = 0 THEN gs
     ELSE [gs EXCEPT
             !.players = IF canPlayDrawnCard THEN withCard
                         ELSE [i \in 1 .. Len(withCard) |->
                                 [withCard[i] EXCEPT !.saidMauMau = FALSE]],
             !.deck = d.updatedDeck,
             !.currentPlayerIndex =
                IF canPlayDrawnCard THEN cpi
                ELSE getNextPlayerIndex(cpi, gs.direction, Len(gs.players)),
             !.lastAction = IF d.reshuffled THEN "drew a card, reshuffled"
                            ELSE "drew a card"]

\* mutant: the turn passes after every draw, playable or not
handleDrawCard_AlwaysPasses(gs, rand) ==
  LET d == drawCardsFromDeck(gs.deck, gs.discardPile, 1, rand)
      cpi == gs.currentPlayerIndex
      withCard == [gs.players EXCEPT ![cpi + 1].cards = @ \o d.drawnCards]
  IN IF Len(d.drawnCards) = 0 THEN gs
     ELSE [gs EXCEPT
             !.players = [i \in 1 .. Len(withCard) |->
                            [withCard[i] EXCEPT !.saidMauMau = FALSE]],
             !.deck = d.updatedDeck,
             !.discardPile = d.updatedDiscardPile,
             !.currentPlayerIndex = getNextPlayerIndex(cpi, gs.direction, Len(gs.players)),
             !.lastAction = IF d.reshuffled THEN "drew a card, reshuffled"
                            ELSE "drew a card"]

\* mutant: a draw that passes the turn leaves the declarations standing
handleDrawCard_KeepsFlags(gs, rand) ==
  LET d == drawCardsFromDeck(gs.deck, gs.discardPile, 1, rand)
      cpi == gs.currentPlayerIndex
      canPlayDrawnCard == isValidMove(d.drawnCards[1], Last(gs.discardPile),
                                      gs.settings.enableBluffing)
  IN IF Len(d.drawnCards) = 0 THEN gs
     ELSE [gs EXCEPT
             !.players[cpi + 1].cards = @ \o d.drawnCards,
             !.deck = d.updatedDeck,
             !.discardPile = d.updatedDiscardPile,
             !.currentPlayerIndex =
                IF canPlayDrawnCard THEN cpi
                ELSE getNextPlayerIndex(cpi, gs.direction, Len(gs.players)),
             !.lastAction = IF d.reshuffled THEN "drew a card, reshuffled"
                            ELSE "drew a card"]

handleDrawCard(gs, rand) ==
  LET d == drawCardsFromDeck(gs.deck, gs.discardPile, 1, rand)
      cpi == gs.currentPlayerIndex
      topCard == Last(gs.discardPile)
      canPlayDrawnCard == isValidMove(d.drawnCards[1], topCard, gs.settings.enableBluffing)
      withCard == [gs.players EXCEPT ![cpi + 1].cards = @ \o d.drawnCards]
  IN IF Len(d.drawnCards) = 0 THEN gs
     ELSE [gs EXCEPT
             !.players = IF canPlayDrawnCard THEN withCard
                         ELSE [i \in 1 .. Len(withCard) |->
                                 [withCard[i] EXCEPT !.saidMauMau = FALSE]],
             !.deck = d.updatedDeck,
             !.discardPile = d.updatedDiscardPile,
             !.currentPlayerIndex =
                IF canPlayDrawnCard THEN cpi
                ELSE getNextPlayerIndex(cpi, gs.direction, Len(gs.players)),
             !.lastAction = IF d.reshuffled THEN "drew a card, reshuffled"
                            ELSE "drew a card"]

handleSayMauMau_PassesTurn(gs) ==
  [gs EXCEPT !.players[gs.currentPlayerIndex + 1].saidMauMau = TRUE,
             !.currentPlayerIndex =
                getNextPlayerIndex(gs.currentPlayerIndex, gs.direction, Len(gs.players)),
             !.lastAction = "said Mau Mau"]

handleSayMauMau(gs) ==
  [gs EXCEPT !.players[gs.currentPlayerIndex + 1].saidMauMau = TRUE,
             !.lastAction = "said Mau Mau"]

\* the players handleRestartGame would deal to
ActivePlayers(gs) ==
  SelectSeq([i \in 1 .. Len(gs.players) |->
               [gs.players[i] EXCEPT !.cards = <<>>, !.saidMauMau = FALSE,
                                     !.isEliminated = (gs.players[i].score <= 0)]],
            LAMBDA p : ~p.isEliminated)

handleRestartGame_ResetsScores(gs, rand) ==
  LET activePlayers ==
        [i \in 1 .. Len(ActivePlayers(gs)) |->
           [ActivePlayers(gs)[i] EXCEPT !.score = gs.settings.initialScore]]
      deck == shuffleDeck(createDeck(gs.settings.enableJokers), rand)
      dealt == dealCards(activePlayers, deck)
      firstCard == Last(dealt.updatedDeck)
  IN IF Len(activePlayers) < 2 THEN gs
     ELSE [players |-> dealt.updatedPlayers, currentPlayerIndex |-> 0,
           deck |-> Pop(dealt.updatedDeck), discardPile |-> <<firstCard>>,
           direction |-> "clockwise", gameStarted |-> TRUE, gameEnded |-> FALSE,
           winner |-> NoWinner, lastAction |-> "new round started",
           settings |-> gs.settings]

handleRestartGame_DealsToAnyone(gs, rand) ==
  LET activePlayers == ActivePlayers(gs)
      deck == shuffleDeck(createDeck(gs.settings.enableJokers), rand)
      dealt == dealCards(activePlayers, deck)
      firstCard == Last(dealt.updatedDeck)
  IN [players |-> dealt.updatedPlayers, currentPlayerIndex |-> 0,
      deck |-> Pop(dealt.updatedDeck), discardPile |-> <<firstCard>>,
      direction |-> "clockwise", gameStarted |-> TRUE, gameEnded |-> FALSE,
      winner |-> NoWinner, lastAction |-> "new round started",
      settings |-> gs.settings]

handleRestartGame(gs, rand) ==
  LET activePlayers == ActivePlayers(gs)
      deck == shuffleDeck(createDeck(gs.settings.enableJokers), rand)
      dealt == dealCards(activePlayers, deck)
      firstCard == Last(dealt.updatedDeck)
  IN IF Len(activePlayers) < 2 THEN gs
     ELSE [players |-> dealt.updatedPlayers, currentPlayerIndex |-> 0,
           deck |-> Pop(dealt.updatedDeck), discardPile |-> <<firstCard>>,
           direction |-> "clockwise", gameStarted |-> TRUE, gameEnded |-> FALSE,
           winner |-> NoWinner, lastAction |-> "new round started",
           settings |-> gs.settings]

handleNewGame == InitialGameState

(***************************************************************************)
(* The GameState object a handler read, as it is after the call.  The      *)
(* handlers copy the players array, not the player objects in it, so a     *)
(* write to a player or a push to its cards reaches the object read.       *)
(***************************************************************************)
\* the hands of `new` in the player objects of gs
WithHandsOf(gs, new) ==
  [gs EXCEPT !.players = [i \in 1 .. Len(gs.players) |->
                            [gs.players[i] EXCEPT !.cards = new.players[i].cards]]]

\* penalty cards are pushed to the current player's cards and the filtered
\* hand is assigned to that player object; handleSpecialCard pushes to the
\* cards of the same objects; the flags are reset and the scores set in new
\* objects; deck and discardPile are copied on entry
handlePlayCard_Snapshot(gs, cardToPlay, rand1, rand2) ==
  IF ~isValidMove(cardToPlay, Last(gs.discardPile), gs.settings.enableBluffing)
  THEN gs
  ELSE WithHandsOf(gs, PlayValidCard(gs, cardToPlay, rand1, rand2))

\* the drawn card is pushed to the current player's cards and forEach resets
\* the flags of the player objects; drawCardsFromDeck copies the piles
handleDrawCard_Snapshot(gs, rand) ==
  [gs EXCEPT !.players = handleDrawCard(gs, rand).players]

\* the flag is set in the current player's object
handleSayMauMau_Snapshot(gs) ==
  [gs EXCEPT !.players[gs.currentPlayerIndex + 1].saidMauMau = TRUE]

(***************************************************************************)
(* The auto-check effect of Index.tsx: it runs after a render in which     *)
(* currentPlayerIndex, gameStarted or the settings object changed.         *)
(***************************************************************************)
AutoCheckEffect(old, new, newSettingsObject) ==
  IF /\ \/ old.currentPlayerIndex # new.currentPlayerIndex
        \/ old.gameStarted # new.gameStarted
        \/ newSettingsObject
     /\ new.gameStarted /\ ~new.gameEnded
     /\ new.settings.enableMauMauRule /\ new.settings.autoCheckMauMau
     /\ Len(new.players[new.currentPlayerIndex + 1].cards) = 1
     /\ ~new.players[new.currentPlayerIndex + 1].saidMauMau
  THEN handleSayMauMau(new)
  ELSE new

(***************************************************************************)
(* State machine.  `call` records the last handler invoked, the card it    *)
(* was given and whether it got past its early return; `turns` counts the  *)
(* calls of the round; `fnArgs` and `fnResult` are used by SpecPure only.*)
(***************************************************************************)
NoCard == [id |-> <<"none", "none", 0>>, suit |-> "none", rank |-> "none", isRed |-> FALSE]

Call(op, card, done) == [op |-> op, card |-> card, done |-> done]

\* the settings startGame is called with: the rule enforced by penalty, and
\* each of the four switches flipped from there
SettingsChoices ==
  {s \in [initialScore : InitialScores, enableJokers : BOOLEAN,
          enableBluffing : BOOLEAN, enableMauMauRule : BOOLEAN,
          autoCheckMauMau : BOOLEAN] :
     Cardinality({f \in {"enableJokers", "enableBluffing", "autoCheckMauMau"} : s[f]}
                 \cup {f \in {"enableMauMauRule"} : ~s[f]}) <= 1}

RECURSIVE HandsTotal(_)
HandsTotal(ps) == IF ps = <<>> THEN 0 ELSE Len(Head(ps).cards) + HandsTotal(Tail(ps))

TotalCards(gs) == HandsTotal(gs.players) + Len(gs.deck) + Len(gs.discardPile)

\* renderContent shows the board (and so offers play, draw and say) unless the
\* round is over, and then shows GameOver with restart and new game
BoardShown_WhileStarted(gs) == gs.gameStarted

BoardShown(gs) == gs.gameStarted /\ ~(gs.gameEnded /\ gs.winner # NoWinner)

GameOverShown(gs) == gs.gameEnded /\ gs.winner # NoWinner

CurrentHand(gs) == gs.players[gs.currentPlayerIndex + 1].cards

Range(s) == {s[i] : i \in 1 .. Len(s)}

\* ticks of 100 ms in turnDuration (Index.tsx:52 sets 30 s, 300 ticks)
TurnTicks == 2

\* isTimerActive of Index, timeLeft of TurnTimer in ticks, the setTimeout
\* callbacks of the handlers not yet run, and the ticks counted since
\* timeLeft was last set to the duration
TimerInit ==
  [isTimerActive |-> FALSE, timeLeft |-> TurnTicks, pending |-> 0, counted |-> 0]

Init ==
  /\ gameState = InitialGameState
  /\ call = Call("none", NoCard, FALSE)
  /\ turns = 0
  /\ fnArgs = <<>>
  /\ fnResult = <<>>
  /\ timer = TimerInit

StartGameWith(counts, settingsChoices) ==
  /\ ~gameState.gameStarted
  /\ \E n \in counts, settings \in settingsChoices, r \in RandVals :
       /\ n * INITIAL_CARDS + 1 <= Len(createDeck(settings.enableJokers))
       /\ gameState' = AutoCheckEffect(gameState, startGame(n, settings, Rand(r)), TRUE)
  /\ call' = Call("startGame", NoCard, TRUE)
  /\ turns' = 0
  /\ UNCHANGED <<fnArgs, fnResult>>

StartGame == StartGameWith(2 .. MaxPlayers, SettingsChoices)

PlayCardFrom(cards) ==
  /\ BoardShown(gameState)
  /\ \E c \in cards :
       \E new \in {handlePlayCard(gameState, c, Rand(r1), Rand(r2)) :
                     r1 \in RandVals, r2 \in RandVals} :
          /\ TotalCards(new) <= Len(createDeck(new.settings.enableJokers)) + MaxExtraCards
          /\ gameState' = AutoCheckEffect(gameState, new, FALSE)
          /\ call' = Call("playCard", c,
                          isValidMove(c, Last(gameState.discardPile),
                                      gameState.settings.enableBluffing))
          /\ turns' = IF new = gameState THEN turns ELSE turns + 1
          /\ UNCHANGED <<fnArgs, fnResult>>

\* a card the board offers: one of the current player's hand
PlayCard == PlayCardFrom(Range(CurrentHand(gameState)))

\* handlePlayCard given any card of the deck in use
PlayAnyCard == PlayCardFrom(Range(createDeck(gameState.settings.enableJokers)))

DrawCard ==
  /\ BoardShown(gameState)
  /\ \E new \in {handleDrawCard(gameState, Rand(r)) : r \in RandVals} :
       /\ gameState' = AutoCheckEffect(gameState, new, FALSE)
       /\ call' = Call("drawCard", NoCard,
                       Len(gameState.deck) > 0 \/ Len(gameState.discardPile) > 1)
       /\ turns' = IF new = gameState THEN turns ELSE turns + 1
       /\ UNCHANGED <<fnArgs, fnResult>>

SayMauMau ==
  /\ BoardShown(gameState)
  /\ gameState' = handleSayMauMau(gameState)
  /\ call' = Call("sayMauMau", NoCard, TRUE)
  /\ turns' = turns + 1
  /\ UNCHANGED <<fnArgs, fnResult>>

RestartGame ==
  /\ GameOverShown(gameState)
  /\ \E r \in RandVals :
       gameState' = AutoCheckEffect(gameState, handleRestartGame(gameState, Rand(r)), FALSE)
  /\ call' = Call("restartGame", NoCard, Len(ActivePlayers(gameState)) >= 2)
  /\ turns' = IF Len(ActivePlayers(gameState)) >= 2 THEN 0 ELSE turns
  /\ UNCHANGED <<fnArgs, fnResult>>

NewGame ==
  /\ GameOverShown(gameState)
  /\ gameState' = handleNewGame
  /\ call' = Call("newGame", NoCard, TRUE)
  /\ turns' = 0
  /\ UNCHANGED <<fnArgs, fnResult>>

\* every GameState a control of the board can set from gs: a click on a card
\* of the hand, the draw button (also what the turn timer calls) and the
\* Mau Mau button; the board has no other control
BoardResults(gs) ==
  {handlePlayCard(gs, c, Rand(r1), Rand(r2)) :
     c \in Range(CurrentHand(gs)), r1 \in RandVals, r2 \in RandVals}
  \cup {handleDrawCard(gs, Rand(r)) : r \in RandVals}
  \cup {handleSayMauMau(gs)}

\* Spec follows every round for MaxTurns calls that change the state; the
\* turn timer is left out of it, of SpecAnyCard and of SpecLongRound
Next ==
  \/ StartGame /\ UNCHANGED timer
  \/ turns < MaxTurns /\ PlayCard /\ UNCHANGED timer
  \/ turns < MaxTurns /\ DrawCard /\ UNCHANGED timer
  \/ turns < MaxTurns /\ SayMauMau /\ UNCHANGED timer
  \/ RestartGame /\ UNCHANGED timer
  \/ NewGame /\ UNCHANGED timer

Spec == Init /\ [][Next]_vars

\* SpecAnyCard hands handlePlayCard cards from outside the hand as well, and
\* follows a round for MaxAnyCardTurns calls
NextAnyCard ==
  \/ StartGame /\ UNCHANGED timer
  \/ turns < MaxAnyCardTurns /\ PlayAnyCard /\ UNCHANGED timer
  \/ turns < MaxAnyCardTurns /\ DrawCard /\ UNCHANGED timer
  \/ turns < MaxAnyCardTurns /\ SayMauMau /\ UNCHANGED timer
  \/ RestartGame /\ UNCHANGED timer
  \/ NewGame /\ UNCHANGED timer

SpecAnyCard == Init /\ [][NextAnyCard]_vars

\* SpecLongRound follows one two-player round with the last-card rule enforced
\* by penalty for MaxLongRoundTurns calls: the cards the board makes clickable
\* (GameBoard's playableCards) are played, cards are drawn, nobody declares
LongRoundSettings ==
  [initialScore |-> 10, enableJokers |-> FALSE, enableBluffing |-> FALSE,
   enableMauMauRule |-> TRUE, autoCheckMauMau |-> FALSE]

PlayableCards(gs) ==
  {c \in Range(CurrentHand(gs)) :
     isValidMove(c, Last(gs.discardPile), gs.settings.enableBluffing)}

PlayPlayableCard == PlayCardFrom(PlayableCards(gameState))

NextLongRound ==
  \/ StartGameWith({2}, {LongRoundSettings}) /\ UNCHANGED timer
  \/ turns < MaxLongRoundTurns /\ PlayPlayableCard /\ UNCHANGED timer
  \/ turns < MaxLongRoundTurns /\ DrawCard /\ UNCHANGED timer

SpecLongRound == Init /\ [][NextLongRound]_vars

(***************************************************************************)
(* SpecTimer: the round with the turn timer.  A step is an event (a click, *)
(* a tick of TurnTimer, a setTimeout callback of a handler) with the       *)
(* renders and effects that follow it.  The two effects of TurnTimer run   *)
(* after a render in their order, each with the timeLeft of that render:   *)
(* the first sets timeLeft to the duration when isActive turned true, the  *)
(* second calls onTimeout when isActive and timeLeft <= 0.                 *)
(***************************************************************************)
\* calls of a round SpecTimer follows, and setTimeout callbacks pending at once
MaxTimerTurns == 4

MaxPending == 2

\* TurnTimer is rendered with the board
TimerMounted(gs) == BoardShown(gs)

\* setIsTimerActive(false) and, unless the round ended, the setTimeout that
\* sets it true again
TimerAfterHandler(reactivates) ==
  [timer EXCEPT !.isTimerActive = FALSE,
                !.pending = IF reactivates THEN @ + 1 ELSE @]

\* setIsTimerActive(true) with TurnTimer mounted anew
TimerStarted ==
  [timer EXCEPT !.isTimerActive = TRUE, !.timeLeft = TurnTicks, !.counted = 0]

TimedStartGame ==
  /\ StartGameWith({2}, {LongRoundSettings})
  /\ timer' = TimerStarted

TimedPlayCard ==
  /\ turns < MaxTimerTurns /\ timer.pending < MaxPending
  /\ PlayCard
  /\ timer' = IF call'.done THEN TimerAfterHandler(~gameState'.gameEnded) ELSE timer

TimedDrawCard ==
  /\ turns < MaxTimerTurns /\ timer.pending < MaxPending
  /\ DrawCard
  /\ timer' = IF call'.done THEN TimerAfterHandler(TRUE) ELSE timer

\* handleSayMauMau leaves the timer alone
TimedSayMauMau ==
  /\ turns < MaxTimerTurns
  /\ SayMauMau
  /\ timer' = timer

TimedRestartGame ==
  /\ RestartGame
  /\ timer' = IF call'.done THEN TimerStarted ELSE timer

TimedNewGame ==
  /\ NewGame
  /\ timer' = timer

\* handleTurnTimeout, called by the second effect of TurnTimer: the draw of
\* handleDrawCard, which stops the timer and schedules its reactivation when
\* it obtains a card; `after` is the timer before the call
TurnTimeout(after) ==
  \E new \in {handleDrawCard(gameState, Rand(r)) : r \in RandVals} :
     /\ gameState' = AutoCheckEffect(gameState, new, FALSE)
     /\ call' = Call("turnTimeout", NoCard, new # gameState)
     /\ turns' = IF new = gameState THEN turns ELSE turns + 1
     /\ timer' = IF new = gameState THEN after
                 ELSE [after EXCEPT !.isTimerActive = FALSE, !.pending = @ + 1]

\* the setTimeout of the second effect runs: timeLeft goes down by 100 ms,
\* and the effect runs again with the new timeLeft
Tick ==
  /\ TimerMounted(gameState)
  /\ timer.isTimerActive /\ timer.timeLeft > 0
  /\ LET ticked == [timer EXCEPT !.timeLeft = @ - 1, !.counted = @ + 1]
     IN IF ticked.timeLeft <= 0
        THEN /\ turns < MaxTimerTurns /\ timer.pending < MaxPending
             /\ TurnTimeout(ticked)
        ELSE /\ timer' = ticked
             /\ call' = Call("tick", NoCard, TRUE)
             /\ UNCHANGED <<gameState, turns>>
  /\ UNCHANGED <<fnArgs, fnResult>>

\* a setTimeout callback of a handler runs setIsTimerActive(true).  When that
\* changes isTimerActive and TurnTimer is mounted, the first effect sets
\* timeLeft to the duration for the next render and the second effect runs
\* with the timeLeft of this render
Reactivate ==
  /\ timer.pending > 0
  /\ LET fired == [timer EXCEPT !.pending = @ - 1, !.isTimerActive = TRUE]
         reset == [fired EXCEPT !.timeLeft = TurnTicks, !.counted = 0]
     IN IF timer.isTimerActive \/ ~TimerMounted(gameState)
        THEN /\ timer' = fired
             /\ call' = Call("reactivate", NoCard, FALSE)
             /\ UNCHANGED <<gameState, turns>>
        ELSE IF timer.timeLeft <= 0
        THEN /\ turns < MaxTimerTurns
             /\ TurnTimeout(reset)
        ELSE /\ timer' = reset
             /\ call' = Call("reactivate", NoCard, TRUE)
             /\ UNCHANGED <<gameState, turns>>
  /\ UNCHANGED <<fnArgs, fnResult>>

NextTimer ==
  \/ TimedStartGame
  \/ TimedPlayCard
  \/ TimedDrawCard
  \/ TimedSayMauMau
  \/ TimedRestartGame
  \/ TimedNewGame
  \/ Tick
  \/ Reactivate

SpecTimer == Init /\ [][NextTimer]_vars

(***************************************************************************)
(* SpecPure: the pure functions applied to inputs drawn from bounded sets. *)
(* `fnArgs` holds the name of the function and its inputs, `fnResult` is   *)
(* <<>> until the function has been applied and <<value>> afterwards.      *)
(***************************************************************************)
AllSuits == <<"hearts", "diamonds", "clubs", "spades">>

AllRanks == <<"2", "3", "4", "5", "6", "7", "8", "9", "10", "J", "Q", "K", "A">>

\* sub-decks createDeck builds (gameUtils.ts:13)
FullDecks == 2

SubDeckOf(ss, rs, d, includeJokers) ==
  [k \in 1 .. Len(ss) * Len(rs) |->
     MakeCard(ss[((k - 1) \div Len(rs)) + 1], rs[((k - 1) % Len(rs)) + 1], d)]
  \o (IF includeJokers THEN <<RedJoker(d), BlackJoker(d)>> ELSE <<>>)

RECURSIVE DecksOf(_, _, _, _, _)
DecksOf(ss, rs, n, d, includeJokers) ==
  IF d >= n THEN <<>>
  ELSE SubDeckOf(ss, rs, d, includeJokers) \o DecksOf(ss, rs, n, d + 1, includeJokers)

createFullDeck_OneJokerEach(includeJokers) ==
  SelectSeq(DecksOf(AllSuits, AllRanks, FullDecks, 0, includeJokers),
            LAMBDA c : c.suit # "joker" \/ c.isRed)

\* createDeck at its size in the source: 4 suits, 13 ranks, 2 sub-decks
createFullDeck(includeJokers) ==
  DecksOf(AllSuits, AllRanks, FullDecks, 0, includeJokers)

\* one card of every suit and rank of types/game.ts, and the two jokers
AnyCards ==
  {MakeCard(su, ra, 0) : su \in Range(AllSuits), ra \in Range(AllRanks)}
  \cup {RedJoker(0), BlackJoker(0)}

\* one card of every rank
RankCards == {MakeCard("hearts", ra, 0) : ra \in Range(AllRanks)} \cup {BlackJoker(0)}

\* longest hand calculateScores is given here, beyond one
MaxScoredHand == 2

HandsUpTo(n) == UNION {[1 .. k -> RankCards] : k \in 0 .. n}

ScoredPlayers(h1, h2, s2) ==
  <<[id |-> PlayerIds[1], cards |-> h1, score |-> 20, saidMauMau |-> FALSE,
     isEliminated |-> FALSE],
    [id |-> PlayerIds[2], cards |-> h2, score |-> s2, saidMauMau |-> TRUE,
     isEliminated |-> FALSE]>>

\* longest deck, and longest discard pile under the played card, that
\* handleSpecialCard is given here
MaxPile == 2

PileCards == {MakeCard("hearts", "5", 0), MakeCard("spades", "Q", 0)}

PilesUpTo(n) == UNION {[1 .. k -> PileCards] : k \in 0 .. n}

EffectCards ==
  {RedJoker(0)} \cup {MakeCard("spades", ra, 0) : ra \in {"A", "Q", "9", "7"}}

\* a GameState as handlePlayCard hands it to handleSpecialCard: the played
\* card is on top of the discard pile
EffectState(n, cpi, direction, deck, under, playedCard) ==
  [InitialGameState EXCEPT
     !.players = [i \in 1 .. n |->
                    [id |-> PlayerIds[i], cards |-> <<MakeCard("clubs", "2", i)>>,
                     score |-> 100, saidMauMau |-> FALSE, isEliminated |-> FALSE]],
     !.currentPlayerIndex = cpi,
     !.direction = direction,
     !.deck = deck,
     !.discardPile = Append(under, playedCard),
     !.gameStarted = TRUE,
     !.lastAction = "played",
     !.settings.enableJokers = TRUE]

\* longest deck and longest discard pile drawCardsFromDeck is given here, and
\* the largest count
MaxDrawPile == 5

MaxDrawCount == 3

\* longest array shuffleDeck is given here
MaxShuffled == 4

\* cards of the deck dealCards is given beyond those it deals
MaxSpareCards == 2

PlainCard(k) == MakeCard("clubs", "7", k)

\* k cards, all different, numbered from+1 .. from+k
PlainCards(from, k) == [i \in 1 .. k |-> PlainCard(from + i)]

\* every outcome of n calls of Math.random
RandSeqs(n) == [1 .. n -> RandVals]

\* the arrays shuffleDeck is given: all cards different, or drawn from two
ShuffleInputs ==
  {PlainCards(0, k) : k \in 0 .. MaxShuffled}
  \cup UNION {[1 .. k -> {PlainCard(1), PlainCard(2)}] : k \in 1 .. MaxShuffled}

\* players as startGame and handleRestartGame hand them to dealCards
DealPlayers(n) ==
  [i \in 1 .. n |->
     [id |-> PlayerIds[i], cards |-> <<>>, score |-> 100, saidMauMau |-> FALSE,
      isEliminated |-> FALSE]]

InitPure ==
  /\ gameState = InitialGameState
  /\ call = Call("none", NoCard, FALSE)
  /\ turns = 0
  /\ fnResult = <<>>
  /\ timer = TimerInit
  /\ \/ \E c \in AnyCards, t \in AnyCards, b \in BOOLEAN :
          fnArgs = [fn |-> "isValidMove", cardToPlay |-> c, topCard |-> t,
                  enableBluffing |-> b]
     \/ \E h1 \in HandsUpTo(1), h2 \in HandsUpTo(MaxScoredHand), s2 \in {7, 15},
           w \in 1 .. 2 :
          fnArgs = [fn |-> "calculateScores", players |-> ScoredPlayers(h1, h2, s2),
                  winnerId |-> PlayerIds[w]]
     \/ \E n \in 2 .. MaxPlayers, direction \in {"clockwise", "counterclockwise"},
           deck \in PilesUpTo(MaxPile), under \in PilesUpTo(MaxPile),
           c \in EffectCards, r \in RandVals :
          \E cpi \in 0 .. n - 1 :
             fnArgs = [fn |-> "handleSpecialCard", playedCard |-> c,
                       gameState |-> EffectState(n, cpi, direction, deck, under, c),
                       rand |-> Rand(r)]
     \/ \E a \in 0 .. MaxDrawPile, b \in 0 .. MaxDrawPile, from \in {0, MaxDrawPile},
           count \in 0 .. MaxDrawCount, rand \in RandSeqs(MaxDrawPile - 2) :
          \* with from = 0 the two piles hold copies of the same cards
          fnArgs = [fn |-> "drawCardsFromDeck", deck |-> PlainCards(0, a),
                    discardPile |-> PlainCards(from, b), count |-> count,
                    rand |-> rand]
     \/ \E deck \in ShuffleInputs, rand \in RandSeqs(MaxShuffled - 1) :
          fnArgs = [fn |-> "shuffleDeck", deck |-> deck, rand |-> rand]
     \/ \E n \in 2 .. MaxPlayers :
          \E L \in 0 .. INITIAL_CARDS * n + MaxSpareCards :
             fnArgs = [fn |-> "dealCards", players |-> DealPlayers(n),
                       deck |-> PlainCards(0, L)]
     \/ \E includeJokers \in BOOLEAN :
          fnArgs = [fn |-> "createDeck", includeJokers |-> includeJokers]

ApplyIsValidMove ==
  /\ fnArgs.fn = "isValidMove" /\ fnResult = <<>>
  /\ fnResult' = <<isValidMove(fnArgs.cardToPlay, fnArgs.topCard, fnArgs.enableBluffing)>>
  /\ UNCHANGED <<gameState, call, turns, fnArgs>>

ApplyCalculateScores ==
  /\ fnArgs.fn = "calculateScores" /\ fnResult = <<>>
  /\ fnResult' = <<calculateScores(fnArgs.players, fnArgs.winnerId)>>
  /\ UNCHANGED <<gameState, call, turns, fnArgs>>

ApplyHandleSpecialCard ==
  /\ fnArgs.fn = "handleSpecialCard" /\ fnResult = <<>>
  /\ fnResult' = <<handleSpecialCard(fnArgs.playedCard, fnArgs.gameState, fnArgs.rand)>>
  /\ UNCHANGED <<gameState, call, turns, fnArgs>>

\* fnArgs holds the arrays handed in, before and after the call
ApplyDrawCardsFromDeck ==
  /\ fnArgs.fn = "drawCardsFromDeck" /\ fnResult = <<>>
  /\ fnResult' = <<drawCardsFromDeck(fnArgs.deck, fnArgs.discardPile, fnArgs.count,
                                     fnArgs.rand)>>
  /\ LET after == drawCardsFromDeck_Arguments(fnArgs.deck, fnArgs.discardPile,
                                              fnArgs.count, fnArgs.rand)
     IN fnArgs' = [fnArgs EXCEPT !.deck = after.deck,
                                 !.discardPile = after.discardPile]
  /\ UNCHANGED <<gameState, call, turns>>

ApplyShuffleDeck ==
  /\ fnArgs.fn = "shuffleDeck" /\ fnResult = <<>>
  /\ fnResult' = <<shuffleDeck(fnArgs.deck, fnArgs.rand)>>
  /\ fnArgs' = [fnArgs EXCEPT !.deck = shuffleDeck_Argument(fnArgs.deck, fnArgs.rand)]
  /\ UNCHANGED <<gameState, call, turns>>

ApplyDealCards ==
  /\ fnArgs.fn = "dealCards" /\ fnResult = <<>>
  /\ fnResult' = <<dealCards(fnArgs.players, fnArgs.deck)>>
  /\ UNCHANGED <<gameState, call, turns, fnArgs>>

ApplyCreateDeck ==
  /\ fnArgs.fn = "createDeck" /\ fnResult = <<>>
  /\ fnResult' = <<createFullDeck(fnArgs.includeJokers)>>
  /\ UNCHANGED <<gameState, call, turns, fnArgs>>

NextPure ==
  \/ ApplyIsValidMove /\ UNCHANGED timer
  \/ ApplyCalculateScores /\ UNCHANGED timer
  \/ ApplyHandleSpecialCard /\ UNCHANGED timer
  \/ ApplyDrawCardsFromDeck /\ UNCHANGED timer
  \/ ApplyShuffleDeck /\ UNCHANGED timer
  \/ ApplyDealCards /\ UNCHANGED timer
  \/ ApplyCreateDeck /\ UNCHANGED timer

SpecPure == InitPure /\ [][NextPure]_vars

(***************************************************************************)
(* Claims                                                                  *)
(***************************************************************************)
RECURSIVE AllHands(_)
AllHands(ps) == IF ps = <<>> THEN <<>> ELSE Head(ps).cards \o AllHands(Tail(ps))

CardsInPlay(gs) == AllHands(gs.players) \o gs.deck \o gs.discardPile

Occurrences(s, c) == Cardinality({i \in 1 .. Len(s) : s[i] = c})

\* C1: once a round has been started, every card of the built deck is in
\* exactly one of the hands, the deck and the discard pile, so the number of
\* cards in play equals the size of the built deck.
C1_Conservation ==
  gameState.gameStarted =>
    LET built == createDeck(gameState.settings.enableJokers)
        inPlay == CardsInPlay(gameState)
    IN /\ Len(inPlay) = Len(built)
       /\ \A c \in Range(built) : Occurrences(inPlay, c) = 1

\* what the claims say of one step: the step is a call of handlePlayCard
PlayStep == call'.op = "playCard"

\* ... that got past the validity check with a card of the acting player's hand
ValidPlayStep ==
  /\ PlayStep /\ call'.done
  /\ call'.card \in Range(CurrentHand(gameState))

Actor == gameState.players[gameState.currentPlayerIndex + 1]

ActorAfter == gameState'.players[gameState.currentPlayerIndex + 1]

\* C2: handlePlayCard called with a card for which isValidMove is false leaves
\* the whole GameState as it was.
C2_InvalidMoveRejected ==
  [][(/\ PlayStep
      /\ ~isValidMove(call'.card, Last(gameState.discardPile),
                      gameState.settings.enableBluffing))
       => gameState' = gameState]_vars

C2_Witness ==
  /\ call.op = "playCard" /\ ~call.done
  /\ gameState.gameStarted /\ ~gameState.gameEnded
  /\ call.card \in Range(CurrentHand(gameState))
  /\ call.card.suit # Last(gameState.discardPile).suit
  /\ call.card.rank # Last(gameState.discardPile).rank

\* C3: handlePlayCard called with a card that is not in the current player's
\* hand leaves the whole GameState as it was.
C3_NotInHandRejected ==
  [][(PlayStep /\ call'.card \notin Range(CurrentHand(gameState)))
       => gameState' = gameState]_vars

\* C4: without bluffing isValidMove is true exactly when the suits match, the
\* ranks match or either card is a joker; with bluffing it is always true.
C4_MoveValidation ==
  (fnArgs.fn = "isValidMove" /\ fnResult # <<>>) =>
    LET c == fnArgs.cardToPlay
        t == fnArgs.topCard
    IN fnResult[1] = IF fnArgs.enableBluffing THEN TRUE
                     ELSE (c.suit = t.suit \/ c.rank = t.rank
                           \/ c.rank = "joker" \/ t.rank = "joker")

C4_Witness ==
  /\ fnArgs.fn = "isValidMove" /\ fnResult = <<TRUE>>
  /\ ~fnArgs.enableBluffing
  /\ fnArgs.topCard.rank = "joker" /\ fnArgs.cardToPlay.rank = "7"

\* C5: with the rule on and auto-check off, a valid play of the only card of a
\* player who has not declared leaves that player with 2 cards, no winner and
\* the round not ended.
C5_LastCardPenalty ==
  [][(/\ ValidPlayStep
      /\ gameState.settings.enableMauMauRule
      /\ ~gameState.settings.autoCheckMauMau
      /\ Len(Actor.cards) = 1 /\ ~Actor.saidMauMau)
       => /\ Len(ActorAfter.cards) = 2
          /\ gameState'.winner = NoWinner
          /\ ~gameState'.gameEnded]_vars

\* C6: a valid play puts no card into the acting player's hand when the rule
\* is off, auto-check is on, the player has declared or holds a number of
\* cards other than one; the deck is then only touched by a joker or a 9.
C6_NoPenaltyOtherwise ==
  [][(/\ ValidPlayStep
      /\ \/ ~gameState.settings.enableMauMauRule
         \/ gameState.settings.autoCheckMauMau
         \/ Actor.saidMauMau
         \/ Len(Actor.cards) # 1)
       => /\ Range(ActorAfter.cards) \subseteq Range(Actor.cards)
          /\ Len(ActorAfter.cards) < Len(Actor.cards)
          /\ call'.card.rank \notin {"joker", "9"} => gameState'.deck = gameState.deck
          /\ gameState'.lastAction # "forgot Mau Mau"]_vars

\* a player who had declared has played the last card and won
C6_Witness ==
  /\ call.op = "playCard" /\ call.done
  /\ gameState.settings.enableMauMauRule /\ ~gameState.settings.autoCheckMauMau
  /\ gameState.gameEnded
  /\ gameState.players[gameState.currentPlayerIndex + 1].saidMauMau
  /\ gameState.players[gameState.currentPlayerIndex + 1].cards = <<>>

\* C7: a valid play that empties the acting player's hand ends the round with
\* that player as winner and applies no special effect: currentPlayerIndex,
\* direction, the deck and every other hand are as before.
C7_WinningPlayStops ==
  [][(ValidPlayStep /\ ActorAfter.cards = <<>>)
       => /\ gameState'.gameEnded
          /\ gameState'.winner = Actor.id
          /\ gameState'.currentPlayerIndex = gameState.currentPlayerIndex
          /\ gameState'.direction = gameState.direction
          /\ gameState'.deck = gameState.deck
          /\ Len(gameState'.players) = Len(gameState.players)
          /\ \A i \in 1 .. Len(gameState.players) :
               i # gameState.currentPlayerIndex + 1
                 => gameState'.players[i].cards = gameState.players[i].cards]_vars

\* the values the scoring rule gives the ranks
ClaimedValue(rank) ==
  CASE rank = "joker" -> 20
    [] rank = "A" -> 15
    [] rank \in {"J", "Q", "K"} -> 10
    [] rank = "10" -> 10
    [] OTHER -> CHOOSE v \in 2 .. 9 : AllRanks[v - 1] = rank

RECURSIVE ClaimedHandValue(_)
ClaimedHandValue(cards) ==
  IF cards = <<>> THEN 0
  ELSE ClaimedValue(Head(cards).rank) + ClaimedHandValue(Tail(cards))

\* C8: calculateScores keeps the winner's score and lowers every other
\* player's score by the value of the hand (2..10 face value, J/Q/K 10, A 15,
\* joker 20); hands, ids and the order of the players stay.
C8_Scoring ==
  (fnArgs.fn = "calculateScores" /\ fnResult # <<>>) =>
    LET ps == fnArgs.players
        out == fnResult[1]
    IN /\ Len(out) = Len(ps)
       /\ \A i \in 1 .. Len(ps) :
            /\ out[i].id = ps[i].id
            /\ out[i].cards = ps[i].cards
            /\ out[i].score = IF ps[i].id = fnArgs.winnerId THEN ps[i].score
                              ELSE ps[i].score - ClaimedHandValue(ps[i].cards)

\* one King and one 5 cost exactly 15
C8_Witness ==
  /\ fnArgs.fn = "calculateScores" /\ fnResult # <<>>
  /\ fnArgs.winnerId = PlayerIds[1]
  /\ fnArgs.players[1].cards = <<>>
  /\ fnArgs.players[2].cards = <<MakeCard("hearts", "K", 0), MakeCard("hearts", "5", 0)>>
  /\ fnResult[1][2].score = fnArgs.players[2].score - 15
  /\ fnResult[1][1].score = fnArgs.players[1].score

\* C9: (matches start with initialScore >= 1) a player's isEliminated flag is
\* true exactly when the player's score is <= 0.
C9_EliminatedIffScore ==
  \A i \in 1 .. Len(gameState.players) :
    gameState.players[i].isEliminated <=> gameState.players[i].score <= 0

\* a round ended with one player at exactly 0 and another still above 0
C9_Witness ==
  /\ gameState.gameEnded
  /\ \E i \in 1 .. Len(gameState.players) :
       gameState.players[i].score = 0 /\ gameState.players[i].isEliminated
  /\ \E i \in 1 .. Len(gameState.players) :
       /\ gameState.players[i].id # gameState.winner
       /\ gameState.players[i].score > 0 /\ ~gameState.players[i].isEliminated

\* C10: a valid play of a card that is no joker, A, Q or 9 and does not end
\* the round moves currentPlayerIndex one seat on in the unchanged direction;
\* with two players the turn goes to the other player.
C10_PlainCardAdvances ==
  [][(/\ ValidPlayStep
      /\ ~gameState'.gameEnded
      /\ call'.card.rank \notin {"joker", "A", "Q", "9"})
       => /\ gameState'.currentPlayerIndex =
               getNextPlayerIndex(gameState.currentPlayerIndex, gameState.direction,
                                  Len(gameState.players))
          /\ gameState'.direction = gameState.direction
          /\ gameState'.winner = NoWinner
          /\ Len(gameState.players) = 2
               => gameState'.currentPlayerIndex = 1 - gameState.currentPlayerIndex]_vars

\* a plain card has been played counterclockwise on a three-player table
C10_Witness ==
  /\ call.op = "playCard" /\ call.done /\ call.card.rank = "5"
  /\ ~gameState.gameEnded
  /\ gameState.direction = "counterclockwise"
  /\ Len(gameState.players) = 3

\* a valid play of the card with the given rank that does not end the round
EffectStep(rank) ==
  ValidPlayStep /\ ~gameState'.gameEnded /\ call'.card.rank = rank

\* the play is one the handler penalises before it resolves the card
Penalised ==
  /\ gameState.settings.enableMauMauRule /\ ~gameState.settings.autoCheckMauMau
  /\ Len(Actor.cards) = 1 /\ ~Actor.saidMauMau

Seat(steps, direction) ==
  LET n == Len(gameState.players)
  IN IF direction = "clockwise" THEN (gameState.currentPlayerIndex + steps) % n
     ELSE (gameState.currentPlayerIndex + n * steps - steps) % n

\* the hands of the players other than the acting one and those at `seats`
HandsKeptExcept(seats) ==
  /\ Len(gameState'.players) = Len(gameState.players)
  /\ \A i \in 0 .. Len(gameState.players) - 1 :
       (i # gameState.currentPlayerIndex /\ i \notin seats)
         => gameState'.players[i + 1].cards = gameState.players[i + 1].cards

\* the acting player's hand only lost the played card, unless penalty cards came
ActorDrewNothing ==
  ~Penalised => /\ Range(ActorAfter.cards) \subseteq Range(Actor.cards)
                /\ Len(ActorAfter.cards) < Len(Actor.cards)

Flipped(direction) ==
  IF direction = "clockwise" THEN "counterclockwise" ELSE "clockwise"

C14_JokerSkipsInPlay ==
  [][EffectStep("joker")
       => /\ gameState'.currentPlayerIndex = Seat(2, gameState.direction)
          /\ gameState'.direction = gameState.direction
          /\ gameState'.lastAction # "lost turn"]_vars

Min(a, b) == IF a <= b THEN a ELSE b

C16_DeclarationsCleared ==
  [][(ValidPlayStep /\ ~gameState.settings.autoCheckMauMau)
       => \A i \in 1 .. Len(gameState'.players) :
            ~gameState'.players[i].saidMauMau]_vars

\* the same of the plays that do not end the round
C16_ClearedUnlessWon ==
  [][(ValidPlayStep /\ ~gameState.settings.autoCheckMauMau /\ ~gameState'.gameEnded)
       => \A i \in 1 .. Len(gameState'.players) :
            ~gameState'.players[i].saidMauMau]_vars

\* what the claims say of one step: the step is a call of handleDrawCard
DrawStep == call'.op = "drawCard"

\* ... that obtained a card
DrawnStep == DrawStep /\ call'.done

\* C17: after a draw that obtains a card the turn stays with the acting player
\* if the drawn card is a valid move on the top of the discard pile, and
\* otherwise goes to the immediate next seat with every saidMauMau flag reset;
\* direction is unchanged.  (With auto-check on, the effect that follows the
\* draw may declare again for the player then to move.)
C17_DrawKeepsOrPasses ==
  [][DrawnStep
       => LET drawnCard == Last(ActorAfter.cards)
              canPlay == isValidMove(drawnCard, Last(gameState.discardPile),
                                     gameState.settings.enableBluffing)
          IN /\ gameState'.direction = gameState.direction
             /\ canPlay => gameState'.currentPlayerIndex = gameState.currentPlayerIndex
             /\ ~canPlay
                  => /\ gameState'.currentPlayerIndex = Seat(1, gameState.direction)
                     /\ \A i \in 0 .. Len(gameState'.players) - 1 :
                          (~gameState.settings.autoCheckMauMau
                             \/ i # gameState'.currentPlayerIndex)
                            => ~gameState'.players[i + 1].saidMauMau]_vars

\* the first call of a three-player round drew a card that fits the top of
\* the discard pile, and seat 0 is still to move
C17_Witness ==
  /\ call.op = "drawCard" /\ call.done /\ turns = 1
  /\ Len(gameState.players) = 3 /\ ~gameState.settings.enableBluffing
  /\ gameState.currentPlayerIndex = 0
  /\ Len(CurrentHand(gameState)) = INITIAL_CARDS + 1
  /\ isValidMove(Last(CurrentHand(gameState)), Last(gameState.discardPile), FALSE)

\* the cards of s as a bag
RECURSIVE CountIn(_, _)
CountIn(s, c) ==
  IF s = <<>> THEN 0 ELSE (IF Head(s) = c THEN 1 ELSE 0) + CountIn(Tail(s), c)

SameCards(s, t) ==
  /\ Len(s) = Len(t)
  /\ \A c \in Range(s) \cup Range(t) : CountIn(s, c) = CountIn(t, c)

\* C18: a draw that obtains a card appends exactly one card to the acting
\* player's hand: the top of the deck, or when the deck is empty a card of the
\* reshuffled discard pile, whose top card stays.  No other hand changes, and
\* scores, elimination flags, gameEnded and winner are unchanged.
C18_DrawMovesOneCard ==
  [][DrawnStep
       => LET drawnCard == Last(ActorAfter.cards)
          IN /\ ActorAfter.cards = Append(Actor.cards, drawnCard)
             /\ HandsKeptExcept({})
             /\ Last(gameState'.discardPile) = Last(gameState.discardPile)
             /\ Len(gameState.deck) > 0
                  => /\ drawnCard = Last(gameState.deck)
                     /\ gameState'.deck = Pop(gameState.deck)
                     /\ gameState'.discardPile = gameState.discardPile
             /\ Len(gameState.deck) = 0
                  => /\ gameState'.discardPile = <<Last(gameState.discardPile)>>
                     /\ SameCards(Append(gameState'.deck, drawnCard),
                                  Pop(gameState.discardPile))
             /\ \A i \in 1 .. Len(gameState.players) :
                  /\ gameState'.players[i].score = gameState.players[i].score
                  /\ gameState'.players[i].id = gameState.players[i].id
                  /\ gameState'.players[i].isEliminated = gameState.players[i].isEliminated
             /\ gameState'.gameEnded = gameState.gameEnded
             /\ gameState'.winner = gameState.winner
             /\ gameState'.settings = gameState.settings]_vars

\* a card was drawn from a deck that had to be reshuffled from three or more
\* cards of the discard pile
C18_Witness ==
  /\ call.op = "drawCard" /\ call.done
  /\ gameState.lastAction = "drew a card, reshuffled"
  /\ Len(gameState.discardPile) = 1
  /\ Len(gameState.deck) >= 1

\* C19: handleDrawCard called with the deck empty and at most one card on the
\* discard pile leaves the whole GameState as it was.
C19_DrawOnExhaustionNoOp ==
  [][(/\ DrawStep
      /\ Len(gameState.deck) = 0 /\ Len(gameState.discardPile) <= 1)
       => gameState' = gameState]_vars

\* a draw was asked for with nothing left to draw
C19_Witness ==
  /\ call.op = "drawCard" /\ ~call.done
  /\ gameState.gameStarted /\ ~gameState.gameEnded
  /\ Len(gameState.deck) = 0 /\ Len(gameState.discardPile) = 1

\* new is gs with the turn passed on and no card moved
IsPass(gs, new) ==
  /\ new.currentPlayerIndex =
        getNextPlayerIndex(gs.currentPlayerIndex, gs.direction, Len(gs.players))
  /\ Len(new.players) = Len(gs.players)
  /\ \A i \in 1 .. Len(gs.players) : new.players[i].cards = gs.players[i].cards
  /\ new.deck = gs.deck
  /\ new.discardPile = gs.discardPile

\* C20: in the state reached by drawing a playable card (the turn stayed with
\* the acting player) some action passes the turn to the next player and
\* leaves every hand, the deck and the discard pile unchanged.
C20_PassAfterPlayableDraw ==
  [][(DrawnStep /\ gameState'.currentPlayerIndex = gameState.currentPlayerIndex)
       => \E new \in BoardResults(gameState') : IsPass(gameState', new)]_vars

\* no control of the board ever passes the turn without moving a card
C20_NoPassAction ==
  BoardShown(gameState) => \A new \in BoardResults(gameState) : ~IsPass(gameState, new)

(***************************************************************************)
(* Declaring.                                                              *)
(***************************************************************************)
SayStep == call'.op = "sayMauMau"

\* the state with the current player's flag set and nothing else touched
Declared(gs) == [gs EXCEPT !.players[gs.currentPlayerIndex + 1].saidMauMau = TRUE]

\* C21 as stated: a say-Mau-Mau action sets the acting player's saidMauMau to
\* true, whatever the size of the hand, and changes no other component of the
\* GameState, lastAction included.
C21_DeclaringChangesOnlyFlag ==
  [][SayStep => gameState' = Declared(gameState)]_vars

\* C21, amended: a say-Mau-Mau action sets the acting player's saidMauMau to
\* true, whatever the size of the hand, and changes nothing else but
\* lastAction: hands, deck, discardPile, currentPlayerIndex, direction,
\* scores, the other players' flags, gameEnded, winner and settings are kept.
C21_DeclaringChangesFlagAndLastAction ==
  [][SayStep =>
       /\ gameState'.players[gameState.currentPlayerIndex + 1].saidMauMau
       /\ [gameState' EXCEPT !.lastAction = gameState.lastAction] = Declared(gameState)
       /\ gameState'.lastAction = "said Mau Mau"]_vars

\* a declaration made with two cards in hand, recorded all the same
C21_Witness ==
  /\ call.op = "sayMauMau"
  /\ Len(CurrentHand(gameState)) = 2
  /\ gameState.players[gameState.currentPlayerIndex + 1].saidMauMau
  /\ gameState.lastAction = "said Mau Mau"

(***************************************************************************)
(* drawCardsFromDeck.                                                      *)
(***************************************************************************)
\* a step that calls drawCardsFromDeck; fnArgs is what it was given,
\* fnArgs' the same arrays after the call and fnResult'[1] what it returned
DrawCallStep == fnArgs.fn = "drawCardsFromDeck" /\ fnResult' # fnResult

DrawCalled == fnArgs.fn = "drawCardsFromDeck" /\ fnResult # <<>>

Max(a, b) == IF a > b THEN a ELSE b

\* C22: for every deck, discard pile and count, the drawn cards, the updated
\* deck and the updated discard pile of drawCardsFromDeck together hold
\* exactly the cards of the input deck and input discard pile, each as many
\* times, and the input arrays are not modified.
C22_ReshufflePreservesCards ==
  [][DrawCallStep =>
       /\ SameCards(fnResult'[1].drawnCards \o fnResult'[1].updatedDeck
                      \o fnResult'[1].updatedDiscardPile,
                    fnArgs.deck \o fnArgs.discardPile)
       /\ fnArgs'.deck = fnArgs.deck
       /\ fnArgs'.discardPile = fnArgs.discardPile]_vars

\* a draw that went through the reshuffle, from piles that hold copies of the
\* same cards
C22_Witness ==
  /\ DrawCalled
  /\ fnResult[1].reshuffled
  /\ Len(fnResult[1].drawnCards) = MaxDrawCount
  /\ Len(fnArgs.deck) = 1
  /\ Len(fnArgs.discardPile) = MaxDrawPile
  /\ fnArgs.discardPile[1] = fnArgs.deck[1]

\* C23: with a deck of 0 cards and a discard pile of k > 1 cards,
\* drawCardsFromDeck with count 1 returns reshuffled = true, exactly 1 drawn
\* card, a discard pile of exactly the previous top card and a deck of k - 2
\* cards; reshuffled is false whenever count is at most the length of the deck.
C23_ReshuffleOnEmptyDeck ==
  [][DrawCallStep =>
       /\ (Len(fnArgs.deck) = 0 /\ Len(fnArgs.discardPile) > 1 /\ fnArgs.count = 1)
            => /\ fnResult'[1].reshuffled
               /\ Len(fnResult'[1].drawnCards) = 1
               /\ fnResult'[1].updatedDiscardPile = <<Last(fnArgs.discardPile)>>
               /\ Len(fnResult'[1].updatedDeck) = Len(fnArgs.discardPile) - 2
       /\ fnArgs.count <= Len(fnArgs.deck) => ~fnResult'[1].reshuffled]_vars

\* the case k = 5: 3 cards are left in the deck
C23_Witness ==
  /\ DrawCalled
  /\ Len(fnArgs.deck) = 0 /\ Len(fnArgs.discardPile) = 5 /\ fnArgs.count = 1
  /\ fnResult[1].reshuffled
  /\ Len(fnResult[1].updatedDeck) = 3

\* C24: for every deck, discard pile and count >= 0, drawCardsFromDeck
\* returns exactly min(count, |deck| + max(|discardPile| - 1, 0)) cards, and
\* fewer than count only when the deck it returns is empty and the discard
\* pile it returns holds at most 1 card.
C24_ShortDraw ==
  [][DrawCallStep =>
       /\ Len(fnResult'[1].drawnCards) =
            Min(fnArgs.count,
                Len(fnArgs.deck) + Max(Len(fnArgs.discardPile) - 1, 0))
       /\ Len(fnResult'[1].drawnCards) < fnArgs.count
            => /\ Len(fnResult'[1].updatedDeck) = 0
               /\ Len(fnResult'[1].updatedDiscardPile) <= 1]_vars

\* a draw cut short after the reshuffle
C24_Witness ==
  /\ DrawCalled
  /\ fnResult[1].reshuffled
  /\ Len(fnResult[1].drawnCards) > 0
  /\ Len(fnResult[1].drawnCards) < fnArgs.count

(***************************************************************************)
(* The ended round.                                                        *)
(***************************************************************************)
\* some player of both states has a different score in the second
ScoreChanged(gs, new) ==
  \E i \in 1 .. Len(gs.players), j \in 1 .. Len(new.players) :
     /\ gs.players[i].id = new.players[j].id
     /\ gs.players[i].score # new.players[j].score

FreshRound(gs, n) ==
  /\ Len(gs.players) = n
  /\ \A i \in 1 .. n :
        /\ Len(gs.players[i].cards) = INITIAL_CARDS
        /\ ~gs.players[i].saidMauMau
        /\ ~gs.players[i].isEliminated
  /\ Len(gs.discardPile) = 1
  /\ Len(gs.deck) = Len(createDeck(gs.settings.enableJokers)) - INITIAL_CARDS * n - 1
  /\ gs.gameStarted /\ ~gs.gameEnded /\ gs.winner = NoWinner
  /\ gs.currentPlayerIndex = 0 /\ gs.direction = "clockwise"

\* C26: startGame with 2 or more players yields a state in which every
\* player holds exactly INITIAL_CARDS cards and has score =
\* settings.initialScore, saidMauMau = false and isEliminated = false;
\* discardPile holds exactly 1 card; deck holds the built deck less
\* INITIAL_CARDS * n + 1 cards; gameStarted = true, gameEnded = false,
\* winner = null, currentPlayerIndex = 0 and direction = clockwise.
C26_MatchStartState ==
  [][call'.op = "startGame" =>
       /\ Len(gameState'.players) >= 2
       /\ FreshRound(gameState', Len(gameState'.players))
       /\ \A i \in 1 .. Len(gameState'.players) :
             gameState'.players[i].score = gameState'.settings.initialScore]_vars

\* a match of MaxPlayers players just started with the jokers in the deck
C26_Witness ==
  /\ call.op = "startGame"
  /\ Len(gameState.players) = MaxPlayers
  /\ gameState.settings.enableJokers
  /\ Len(gameState.deck) = Len(createDeck(TRUE)) - INITIAL_CARDS * MaxPlayers - 1

\* the players of gs with score > 0, in their order
Survivors(gs) == SelectSeq(gs.players, LAMBDA p : p.score > 0)

RestartStep == call'.op = "restartGame"

\* C27: when at least 2 players of an ended round have score > 0,
\* handleRestartGame produces a state whose players are exactly the prior
\* players with score > 0, in the same order, each with the same id and
\* score, a new hand of INITIAL_CARDS cards and saidMauMau = false; the cards
\* in play are those of a freshly built deck, 1 of them on the discard pile;
\* currentPlayerIndex = 0, direction = clockwise, gameEnded = false and
\* winner = null.
C27_NextRoundCarriesScores ==
  [][(RestartStep /\ Len(Survivors(gameState)) >= 2) =>
       /\ FreshRound(gameState', Len(Survivors(gameState)))
       /\ \A i \in 1 .. Len(Survivors(gameState)) :
             /\ gameState'.players[i].id = Survivors(gameState)[i].id
             /\ gameState'.players[i].score = Survivors(gameState)[i].score
       /\ SameCards(CardsInPlay(gameState'),
                    createDeck(gameState.settings.enableJokers))
       /\ gameState'.settings = gameState.settings]_vars

\* a next round dealt to the first and the third player of three, the second
\* being out, the third with a score lowered in the round before
C27_Witness ==
  /\ call.op = "restartGame" /\ call.done
  /\ Len(gameState.players) = 2
  /\ gameState.players[1].id = PlayerIds[1]
  /\ gameState.players[2].id = PlayerIds[3]
  /\ gameState.players[2].score < gameState.settings.initialScore
  /\ gameState.players[2].score > 0
  /\ Len(gameState.players[2].cards) = INITIAL_CARDS

\* C28: when fewer than 2 players of an ended round have score > 0,
\* handleRestartGame starts no new round: the GameState stays the ended one,
\* with gameEnded = true, the same winner, scores and cards, and no state
\* component names a winner of the match.
C28_MatchEndNotDealt ==
  [][(RestartStep /\ Len(Survivors(gameState)) < 2) =>
       /\ gameState' = gameState
       /\ gameState'.gameEnded
       /\ gameState'.winner # NoWinner
       /\ DOMAIN gameState' =
            {"players", "currentPlayerIndex", "deck", "discardPile", "direction",
             "gameStarted", "gameEnded", "winner", "lastAction", "settings"}]_vars

\* handleRestartGame called with the round winner as the only player left
C28_Witness ==
  /\ call.op = "restartGame" /\ ~call.done
  /\ gameState.gameEnded
  /\ Len(Survivors(gameState)) = 1
  /\ Survivors(gameState)[1].id = gameState.winner

(***************************************************************************)
(* dealCards and shuffleDeck.  Sequences are indexed from 1 here, arrays   *)
(* from 0 in the source.                                                   *)
(***************************************************************************)
DealCallStep == fnArgs.fn = "dealCards" /\ fnResult' # fnResult

\* C29: with n players and a deck of length L >= INITIAL_CARDS * n, the i-th
\* card (i = 0 .. INITIAL_CARDS - 1) dealCards gives player j (j = 0 .. n - 1)
\* is the element of the input deck at index L-1-(i*n+j), each hand has
\* INITIAL_CARDS cards, and updatedDeck is the first L - INITIAL_CARDS * n
\* cards of the input in their order.
C29_RoundRobinDeal ==
  [][(DealCallStep /\ Len(fnArgs.deck) >= INITIAL_CARDS * Len(fnArgs.players)) =>
       LET n == Len(fnArgs.players)
           L == Len(fnArgs.deck)
           dealt == fnResult'[1]
       IN /\ Len(dealt.updatedPlayers) = n
          /\ \A j \in 0 .. n - 1 :
                /\ Len(dealt.updatedPlayers[j + 1].cards) = INITIAL_CARDS
                /\ \A i \in 0 .. INITIAL_CARDS - 1 :
                      dealt.updatedPlayers[j + 1].cards[i + 1] =
                        fnArgs.deck[(L - 1 - (i * n + j)) + 1]
          /\ dealt.updatedDeck = SubSeq(fnArgs.deck, 1, L - INITIAL_CARDS * n)]_vars

\* a deal to MaxPlayers players that leaves cards in the deck
C29_Witness ==
  /\ fnArgs.fn = "dealCards" /\ fnResult # <<>>
  /\ Len(fnArgs.players) = MaxPlayers
  /\ Len(fnArgs.deck) = INITIAL_CARDS * MaxPlayers + MaxSpareCards
  /\ Len(fnResult[1].updatedDeck) = MaxSpareCards
  /\ fnResult[1].updatedPlayers[MaxPlayers].cards[INITIAL_CARDS] = fnArgs.deck[MaxSpareCards + 1]

ShuffleCallStep == fnArgs.fn = "shuffleDeck" /\ fnResult' # fnResult

\* C30: for every input sequence and every outcome of the random choices,
\* shuffleDeck returns a sequence of the same length that holds the same
\* cards, each as many times, and the input sequence is left unmodified.
C30_ShuffleIsPermutation ==
  [][ShuffleCallStep =>
       /\ Len(fnResult'[1]) = Len(fnArgs.deck)
       /\ SameCards(fnResult'[1], fnArgs.deck)
       /\ fnArgs'.deck = fnArgs.deck]_vars

\* a shuffle that moved cards, of a full-length array with a repeated card
C30_Witness ==
  /\ fnArgs.fn = "shuffleDeck" /\ fnResult # <<>>
  /\ Len(fnArgs.deck) = MaxShuffled
  /\ fnResult[1] # fnArgs.deck
  /\ \E i, j \in 1 .. MaxShuffled : i # j /\ fnArgs.deck[i] = fnArgs.deck[j]

(***************************************************************************)
(* createDeck.                                                             *)
(***************************************************************************)
DeckBuilt == fnArgs.fn = "createDeck" /\ fnResult # <<>>

\* C31: createDeck(false) returns 104 cards, exactly two of each of the 52
\* (suit, rank) combinations; createDeck(true) returns 108 cards, those and
\* exactly 4 jokers, 2 with each sub-deck index; all ids are pairwise
\* different and isRed is true exactly for hearts, diamonds and the red joker.
C31_DeckConstruction ==
  DeckBuilt =>
    LET deck == fnResult[1]
        plain == SelectSeq(deck, LAMBDA c : c.suit # "joker")
        jokers == SelectSeq(deck, LAMBDA c : c.suit = "joker")
    IN /\ Len(deck) = IF fnArgs.includeJokers THEN 108 ELSE 104
       /\ Len(plain) = 104
       /\ Cardinality({<<su, ra>> : su \in Range(AllSuits), ra \in Range(AllRanks)}) = 52
       /\ \A su \in Range(AllSuits), ra \in Range(AllRanks) :
             Cardinality({i \in 1 .. Len(plain) :
                            plain[i].suit = su /\ plain[i].rank = ra}) = 2
       /\ Len(jokers) = IF fnArgs.includeJokers THEN 4 ELSE 0
       /\ \A i \in 1 .. Len(jokers) : jokers[i].rank = "joker"
       /\ fnArgs.includeJokers =>
            \A d \in 0 .. 1 :
               Cardinality({i \in 1 .. Len(jokers) : jokers[i].id[3] = d}) = 2
       /\ \A i, j \in 1 .. Len(deck) : i # j => deck[i].id # deck[j].id
       /\ \A i \in 1 .. Len(deck) :
             deck[i].isRed <=> \/ deck[i].suit \in {"hearts", "diamonds"}
                               \/ deck[i].id[1] = "joker" /\ deck[i].id[2] = "red"

\* the deck built with the jokers
C31_Witness ==
  /\ DeckBuilt
  /\ fnArgs.includeJokers
  /\ Len(fnResult[1]) = 108
  /\ \E i \in 1 .. 108 : fnResult[1][i].suit = "joker" /\ ~fnResult[1][i].isRed

(***************************************************************************)
(* The snapshot a transition was given.                                    *)
(***************************************************************************)
\* C32: the play-card, draw-card and say-Mau-Mau transitions do not modify
\* the GameState they are given: after the call the hands, saidMauMau flags,
\* deck and discard pile of the prior snapshot are what they were before it.
C32_NoHiddenMutation ==
  [][/\ PlayStep =>
          \A r1 \in RandVals, r2 \in RandVals :
             handlePlayCard_Snapshot(gameState, call'.card, Rand(r1), Rand(r2)) = gameState
     /\ DrawStep =>
          \A r \in RandVals : handleDrawCard_Snapshot(gameState, Rand(r)) = gameState
     /\ SayStep => handleSayMauMau_Snapshot(gameState) = gameState]_vars

\* C32 for handleSpecialCard: the GameState it is given has the same hands,
\* deck and discard pile after the call.
C32_SpecialCardKeepsArgument ==
  (fnArgs.fn = "handleSpecialCard" /\ fnResult # <<>>) =>
    handleSpecialCard_Snapshot(fnArgs.playedCard, fnArgs.gameState, fnResult[1])
      = fnArgs.gameState

(***************************************************************************)
(* The top of the discard pile.                                            *)
(***************************************************************************)
\* a step within a round: both states are of a started round and the step
\* neither starts a match or a round nor resets the game
RoundStep ==
  /\ gameState.gameStarted /\ gameState'.gameStarted
  /\ call'.op \in {"playCard", "drawCard", "sayMauMau"}

\* C33: in every state of a started round the discard pile is non-empty; its
\* top card changes only through a play that passes the validity check, after
\* which it is the card played; draws, penalty draws, the draws forced by a
\* Joker or a 9, reshuffles and say-Mau-Mau leave the top card the same.
C33_ActiveCardStable ==
  [][/\ gameState'.gameStarted => Len(gameState'.discardPile) >= 1
     /\ RoundStep =>
          Last(gameState'.discardPile) =
            IF PlayStep /\ call'.done THEN call'.card
            ELSE Last(gameState.discardPile)]_vars

\* a draw that reshuffled the discard pile under its top card
C33_Witness ==
  /\ call.op = "drawCard" /\ call.done
  /\ gameState.lastAction = "drew a card, reshuffled"
  /\ Len(gameState.discardPile) = 1
  /\ Len(gameState.deck) >= 1

(***************************************************************************)
(* Progress of the round.                                                  *)
(***************************************************************************)
\* C34: in every state of a started round that has not ended, the current
\* player holds a card that passes isValidMove against the top of the discard
\* pile, or a draw obtains a card (the deck is non-empty or the discard pile
\* holds more than 1 card).
C34_RoundNeverStuck ==
  (gameState.gameStarted /\ ~gameState.gameEnded) =>
    \/ \E c \in Range(CurrentHand(gameState)) :
          isValidMove(c, Last(gameState.discardPile), gameState.settings.enableBluffing)
    \/ Len(gameState.deck) > 0
    \/ Len(gameState.discardPile) > 1

(***************************************************************************)
(* Declarations and the end of the round.                                  *)
(***************************************************************************)
\* C35: with enableMauMauRule on and autoCheckMauMau off, the play that ends
\* a round is made by a player whose saidMauMau is true when the card is
\* played: no player who has not declared empties the hand with a play.
C35_NoUndeclaredWin ==
  [][(/\ PlayStep
      /\ gameState.settings.enableMauMauRule /\ ~gameState.settings.autoCheckMauMau
      /\ ~gameState.gameEnded /\ gameState'.gameEnded)
       => Actor.saidMauMau]_vars

\* C36: in every reachable state saidMauMau is false for every player other
\* than the one at currentPlayerIndex: a declaration is recorded for the
\* current player and every transition that passes the turn clears all flags.
C36_OnlyMoverDeclared ==
  \A i \in 1 .. Len(gameState.players) :
     i # gameState.currentPlayerIndex + 1 => ~gameState.players[i].saidMauMau

\* a declaration that a draw of a playable card left standing, the turn not
\* having passed
C36_Witness ==
  /\ call.op = "drawCard" /\ call.done
  /\ ~gameState.settings.autoCheckMauMau
  /\ gameState.players[gameState.currentPlayerIndex + 1].saidMauMau
  /\ Len(gameState.players) = MaxPlayers

\* the seats whose hand is empty
EmptyHanded(gs) == {i \in 1 .. Len(gs.players) : Len(gs.players[i].cards) = 0}

\* C37: in every state of a started round gameEnded is true iff winner is
\* non-null iff some player's hand is empty; when that holds exactly one
\* player has an empty hand and that player is the winner; while gameEnded is
\* false every player holds at least 1 card.
C37_EndedIffOutOfCards ==
  gameState.gameStarted =>
    /\ gameState.gameEnded <=> gameState.winner # NoWinner
    /\ gameState.gameEnded <=> EmptyHanded(gameState) # {}
    /\ gameState.gameEnded =>
         /\ Cardinality(EmptyHanded(gameState)) = 1
         /\ \A i \in EmptyHanded(gameState) :
               gameState.players[i].id = gameState.winner
    /\ ~gameState.gameEnded =>
         \A i \in 1 .. Len(gameState.players) : Len(gameState.players[i].cards) >= 1

\* a round of MaxPlayers players ended by the second player's last card
C37_Witness ==
  /\ gameState.gameStarted /\ gameState.gameEnded
  /\ call.op = "playCard"
  /\ Len(gameState.players) = MaxPlayers
  /\ gameState.winner = PlayerIds[2]
  /\ EmptyHanded(gameState) = {2}

(***************************************************************************)
(* Scores.                                                                 *)
(***************************************************************************)
RECURSIVE SumScores(_)
SumScores(ps) == IF ps = <<>> THEN 0 ELSE Head(ps).score + SumScores(Tail(ps))

ScoresKept ==
  /\ Len(gameState'.players) = Len(gameState.players)
  /\ \A i \in 1 .. Len(gameState.players) :
        gameState'.players[i].score = gameState.players[i].score

\* the play that ends a round
EndingPlay == PlayStep /\ ~gameState.gameEnded /\ gameState'.gameEnded

\* C38: a play that does not end the round, a draw and a say-Mau-Mau leave
\* every score unchanged, and so does the start of the next round for the
\* players it keeps; the play that ends a round lowers the score of every
\* non-winner by the points of the cards left in that hand, at least 2, and
\* leaves the winner's score unchanged, so that the sum of the scores falls;
\* every player of a round in progress has a score above 0, so a match has
\* finitely many rounds.
C38_ScoresOnlyFall ==
  [][/\ (DrawStep \/ SayStep \/ (PlayStep /\ ~gameState'.gameEnded)) => ScoresKept
     /\ RestartStep => ~ScoreChanged(gameState, gameState')
     /\ EndingPlay =>
          /\ Len(gameState'.players) = Len(gameState.players)
          /\ \A i \in 1 .. Len(gameState.players) :
                IF gameState'.players[i].id = gameState'.winner
                THEN gameState'.players[i].score = gameState.players[i].score
                ELSE /\ gameState'.players[i].score =
                          gameState.players[i].score
                            - SumPoints(gameState'.players[i].cards)
                     /\ gameState'.players[i].score <= gameState.players[i].score - 2
          /\ SumScores(gameState'.players) < SumScores(gameState.players)
     /\ (gameState'.gameStarted /\ ~gameState'.gameEnded) =>
          \A i \in 1 .. Len(gameState'.players) : gameState'.players[i].score > 0]_vars

\* C38, the least a card costs: calculateScores takes at least 2 points for
\* every card left in the hand of a player who is not the winner, and none
\* from the winner.
C38_CardCostsAtLeastTwo ==
  (fnArgs.fn = "calculateScores" /\ fnResult # <<>>) =>
    \A i \in 1 .. Len(fnArgs.players) :
       IF fnArgs.players[i].id = fnArgs.winnerId
       THEN fnResult[1][i].score = fnArgs.players[i].score
       ELSE fnResult[1][i].score <=
              fnArgs.players[i].score - 2 * Len(fnArgs.players[i].cards)

\* the end of a second round, won by a player who lost points in the first
C38_Witness ==
  /\ call.op = "playCard" /\ gameState.gameEnded
  /\ \E i \in 1 .. Len(gameState.players) :
        /\ gameState.players[i].id = gameState.winner
        /\ gameState.players[i].score < gameState.settings.initialScore
        /\ gameState.players[i].score > 0
  /\ \E i \in 1 .. Len(gameState.players) :
        /\ gameState.players[i].id # gameState.winner
        /\ gameState.players[i].score < gameState.settings.initialScore

(***************************************************************************)
(* The turn timer.                                                         *)
(***************************************************************************)
\* a step in which TurnTimer called onTimeout
TimeoutStep == call'.op = "turnTimeout"

\* C39: onTimeout, and with it the automatic draw of handleTurnTimeout, is
\* called only by an active timer whose count reaches 0 after a full
\* turnDuration counted since it was set; the reactivation of the timer after
\* a draw does not itself call it.
C39_OneExpiryOneDraw ==
  [][TimeoutStep =>
       /\ timer.isTimerActive
       /\ timer.timeLeft > 0
       /\ timer.counted + 1 = TurnTicks]_vars

====
